---- MODULE Spec2Model ----
(***************************************************************************)
(* Job orchestration of media_manipulator_api: the JobManager registry,    *)
(* the progress channel and its relay goroutine, the UploadFile /          *)
(* processConversion flow over Converter.ConvertFile, and GetJobStatus.    *)
(*                                                                         *)
(* Numbers with a fraction in the source (speed, volume, seconds) are kept *)
(* in hundredths: speed 1.0 is 100, a trim time of 0.1 s is 10.            *)
(***************************************************************************)
EXTENDS Integers, Sequences, FiniteSets, TLC

VARIABLES
    jobs,        \* JobManager.jobs: job id -> ConversionJob
    progressCh,  \* JobManager.progressCh: buffered channel of ProgressUpdate
    created,     \* number of identifiers uuid.New has handed out
    now,         \* the wall clock read by time.Now()
    worker,      \* per job: position of UploadFile / processConversion / ConvertFile
    poll,        \* GetJobStatus: position of one status poll and the response it builds
    lastOp,      \* the direct registry call made last, with the error it returned
    calls,       \* number of direct registry calls made so far (SpecRegistry)
    late,        \* history: jobs for which the relay consumed a sample after they ended
    mu,          \* JobManager.mu: <<>> when unlocked, <<g>> while goroutine g holds it
    built,       \* what one conversion builds from its options: filters and arguments
    diag,        \* one encoder failure and what the error classifier makes of it
    staging      \* one image save: its position and the files it has left on disk

vars == <<jobs, progressCh, created, now, worker, poll, lastOp, calls, late, mu, built, diag, staging>>

----------------------------------------------------------------------------
(* Bounds of the model *)

MaxLines == 2     \* stderr lines one encoder process writes
MaxClock == 2     \* last instant of the wall clock
MaxCalls == 3     \* direct registry calls in one run of SpecRegistry
MaxSends == 101   \* SendProgressUpdate calls in one run of SpecMailbox

(* Program constants *)

ProgressChCap == 100

StatusPending == "pending"
StatusProcessing == "processing"
StatusCompleted == "completed"
StatusFailed == "failed"

FileTypeImage == "image"
FileTypeVideo == "video"
FileTypeAudio == "audio"

Statuses == {StatusPending, StatusProcessing, StatusCompleted, StatusFailed}

JobIDs == {1, 2}     \* the identifiers uuid.New hands out, in this order
NoJob == 0            \* an identifier the registry never handed out
NilTime == 0          \* CompletedAt == nil
NilErr == ""          \* a nil error
ErrJobNotFound == "job not found"

IsTerminal(status) == status \in {StatusCompleted, StatusFailed}

----------------------------------------------------------------------------
(* JobManager: each method as the registry it leaves and the error it returns *)

NewJob(originalFile, options, t) ==
    [Status |-> StatusPending, Progress |-> 0, ResultURL |-> "", Error |-> "",
     OriginalFile |-> originalFile, Options |-> options,
     CreatedAt |-> t, CompletedAt |-> NilTime]

CreateJob(J, id, originalFile, options, t) ==
    [j \in DOMAIN J \cup {id} |->
        IF j = id THEN NewJob(originalFile, options, t) ELSE J[j]]

GetJob(J, jobID) ==
    IF jobID \notin DOMAIN J
    THEN [job |-> NoJob, err |-> ErrJobNotFound]
    ELSE [job |-> jobID, err |-> NilErr]

UpdateJobStatus(J, jobID, status, t) ==
    IF jobID \notin DOMAIN J
    THEN [jobs |-> J, err |-> ErrJobNotFound]
    ELSE [jobs |-> [J EXCEPT ![jobID] =
                      [@ EXCEPT !.Status = status,
                                !.CompletedAt = IF IsTerminal(status) THEN t ELSE @,
                                !.Progress = IF status = StatusCompleted THEN 100 ELSE @]],
          err |-> NilErr]

UpdateJobProgressUnguarded(J, jobID, progress) ==
    IF jobID \notin DOMAIN J
    THEN [jobs |-> J, err |-> ErrJobNotFound]
    ELSE [jobs |-> [J EXCEPT ![jobID].Progress = progress], err |-> NilErr]

UpdateJobProgress(J, jobID, progress) ==
    IF jobID \notin DOMAIN J
    THEN [jobs |-> J, err |-> ErrJobNotFound]
    ELSE IF IsTerminal(J[jobID].Status)
    THEN [jobs |-> J, err |-> NilErr]
    ELSE [jobs |-> [J EXCEPT ![jobID].Progress = progress], err |-> NilErr]

UpdateJobResultIgnoresMissing(J, jobID, resultURL) ==
    IF jobID \notin DOMAIN J
    THEN [jobs |-> J, err |-> NilErr]
    ELSE [jobs |-> [J EXCEPT ![jobID].ResultURL = resultURL], err |-> NilErr]

UpdateJobResult(J, jobID, resultURL) ==
    IF jobID \notin DOMAIN J
    THEN [jobs |-> J, err |-> ErrJobNotFound]
    ELSE [jobs |-> [J EXCEPT ![jobID].ResultURL = resultURL], err |-> NilErr]

UpdateJobErrorKeepsStatus(J, jobID, errorMsg, t) ==
    IF jobID \notin DOMAIN J
    THEN [jobs |-> J, err |-> ErrJobNotFound]
    ELSE [jobs |-> [J EXCEPT ![jobID].Error = errorMsg], err |-> NilErr]

UpdateJobError(J, jobID, errorMsg, t) ==
    IF jobID \notin DOMAIN J
    THEN [jobs |-> J, err |-> ErrJobNotFound]
    ELSE [jobs |-> [J EXCEPT ![jobID] =
                      [@ EXCEPT !.Error = errorMsg,
                                !.Status = StatusFailed,
                                !.CompletedAt = t]],
          err |-> NilErr]

SendProgressUpdateUnbounded(ch, jobID, progress) ==
    Append(ch, [JobID |-> jobID, Progress |-> progress])

SendProgressUpdate(ch, jobID, progress) ==
    IF Len(ch) < ProgressChCap
    THEN Append(ch, [JobID |-> jobID, Progress |-> progress])
    ELSE ch

CleanupOldJobs(J, maxAge, t) ==
    [j \in {k \in DOMAIN J :
              ~(J[k].CompletedAt # NilTime /\ J[k].CompletedAt < t - maxAge)} |-> J[j]]

----------------------------------------------------------------------------
(* Option payloads: json.Marshal of the submitted map followed by           *)
(* json.Unmarshal into the typed struct.  A key that is absent leaves the   *)
(* field at its zero value; a pointer field is <<>> (nil) or <<v>>.         *)

Has(payload, key) == key \in DOMAIN payload

StrField(payload, key) == IF Has(payload, key) THEN payload[key] ELSE ""
NumField(payload, key) == IF Has(payload, key) THEN payload[key] ELSE 0
PtrField(payload, key) == IF Has(payload, key) THEN <<payload[key]>> ELSE <<>>
BoolField(payload, key) == IF Has(payload, key) THEN payload[key] ELSE FALSE

\* A field of a nested struct behind a pointer that is not nil.
Sub(ptr, key) == IF ptr = <<>> THEN <<>> ELSE PtrField(ptr[1], key)

ImageConversionOptions(payload) ==
    [Format |-> StrField(payload, "format"),
     Width |-> PtrField(payload, "width"),
     Height |-> PtrField(payload, "height"),
     Quality |-> NumField(payload, "quality"),
     Filter |-> StrField(payload, "filter"),
     Tint |-> PtrField(payload, "tint"),
     Crop |-> PtrField(payload, "crop")]

VideoConversionOptions(payload) ==
    [Format |-> StrField(payload, "format"),
     Width |-> PtrField(payload, "width"),
     Height |-> PtrField(payload, "height"),
     PreserveAspectRatio |-> BoolField(payload, "preserveAspectRatio"),
     Speed |-> NumField(payload, "speed"),
     Quality |-> StrField(payload, "quality"),
     Trim |-> PtrField(payload, "trim"),
     VisualEffects |-> PtrField(payload, "visualEffects"),
     Transform |-> PtrField(payload, "transform"),
     Temporal |-> PtrField(payload, "temporal")]

AudioConversionOptions(payload) ==
    [Format |-> StrField(payload, "format"),
     Bitrate |-> StrField(payload, "bitrate"),
     SampleRate |-> StrField(payload, "sampleRate"),
     Channels |-> StrField(payload, "channels"),
     Speed |-> NumField(payload, "speed"),
     Volume |-> NumField(payload, "volume"),
     Trim |-> PtrField(payload, "trim"),
     BasicProcessing |-> PtrField(payload, "basicProcessing"),
     Advanced |-> PtrField(payload, "advanced")]

ImageFormats == {"jpg", "jpeg", "png", "webp", "gif"}
ImageFilters ==
    {"none", "grayscale", "sepia", "blur", "sharpen", "swirl", "barrel-distortion",
     "oil-painting", "vintage", "emboss", "charcoal", "sketch", "rotate-45deg",
     "rotate-90deg", "rotate-180deg", "rotate-270deg"}
VideoQualities == {"low", "medium", "high"}
VideoFormats == {"mp4", "webm", "avi", "mov", "mkv", "flv", "wmv", "prores", "dnxhd"}
AudioBitrates == {"128", "192", "256", "320", "512", "1024"}
AudioSampleRates == {"22050", "44100", "48000", "96000", "192000"}
AudioChannels == {"mono", "stereo", "5.1", "7.1"}
AudioFormats == {"mp3", "wav", "aac", "ogg", "flac", "alac", "opus", "ac3", "dts"}
TimeStretchAlgorithms == {"pitch", "time", "formant"}

\* The trim checks shared by validateVideoOptions and validateAudioOptions.
validateTrim(trim) ==
    IF trim = <<>> THEN NilErr
    ELSE IF trim[1].startTime < 0 THEN "trim start time must be non-negative"
    ELSE IF trim[1].endTime < 0 THEN "trim end time must be non-negative"
    ELSE IF trim[1].endTime <= trim[1].startTime
         THEN "trim end time must be greater than start time"
    ELSE IF trim[1].endTime - trim[1].startTime < 10
         THEN "trim duration must be at least 0.1 seconds"
    ELSE NilErr

validateImageOptions(options) ==
    IF options.Width # <<>> /\ options.Width[1] <= 0 THEN "width must be positive"
    ELSE IF options.Height # <<>> /\ options.Height[1] <= 0 THEN "height must be positive"
    ELSE IF options.Width # <<>> /\ options.Width[1] > 10000 THEN "width too large (max 10000)"
    ELSE IF options.Height # <<>> /\ options.Height[1] > 10000 THEN "height too large (max 10000)"
    ELSE IF options.Quality < 1 \/ options.Quality > 100
         THEN "quality must be between 1 and 100"
    ELSE IF options.Format \notin ImageFormats THEN "unsupported format"
    ELSE IF options.Filter # "" /\ options.Filter \notin ImageFilters THEN "unsupported filter"
    ELSE IF options.Crop = <<>> THEN NilErr
    ELSE IF options.Crop[1].x < 0 THEN "crop X position must be non-negative"
    ELSE IF options.Crop[1].y < 0 THEN "crop Y position must be non-negative"
    ELSE IF options.Crop[1].width <= 0 THEN "crop width must be positive"
    ELSE IF options.Crop[1].height <= 0 THEN "crop height must be positive"
    ELSE IF options.Crop[1].width > 10000 THEN "crop width too large (max 10000)"
    ELSE IF options.Crop[1].height > 10000 THEN "crop height too large (max 10000)"
    ELSE NilErr

\* Of the nested effect groups the payloads of this model carry the
\* Gaussian blur, the flips and the reversal for video, and normalisation
\* and time stretching for audio; the checks of the other groups apply
\* only when those are present.
validateVideoOptions(options) ==
    IF options.Width # <<>> /\ options.Width[1] <= 0 THEN "width must be positive"
    ELSE IF options.Height # <<>> /\ options.Height[1] <= 0 THEN "height must be positive"
    ELSE IF options.Width # <<>> /\ options.Width[1] > 4096 THEN "width too large (max 4096)"
    ELSE IF options.Height # <<>> /\ options.Height[1] > 4096 THEN "height too large (max 4096)"
    ELSE IF options.Speed < 25 \/ options.Speed > 400
         THEN "speed must be between 0.25 and 4.0"
    ELSE IF options.Quality \notin VideoQualities THEN "invalid quality setting"
    ELSE IF options.Format \notin VideoFormats THEN "unsupported format"
    ELSE IF validateTrim(options.Trim) # NilErr THEN validateTrim(options.Trim)
    ELSE LET blur == Sub(options.VisualEffects, "gaussianBlur")
         IN IF blur # <<>> /\ (blur[1] < 0 \/ blur[1] > 50)
            THEN "gaussian blur must be between 0 and 50"
            ELSE NilErr

validateAudioOptions(options) ==
    IF options.Speed < 25 \/ options.Speed > 400
    THEN "speed must be between 0.25 and 4.0"
    ELSE IF options.Volume < 10 \/ options.Volume > 200
         THEN "volume must be between 0.1 and 2.0"
    ELSE IF options.Bitrate \notin AudioBitrates THEN "invalid bitrate"
    ELSE IF options.SampleRate \notin AudioSampleRates THEN "invalid sample rate"
    ELSE IF options.Channels \notin AudioChannels THEN "invalid channels"
    ELSE IF options.Format \notin AudioFormats THEN "unsupported format"
    ELSE IF validateTrim(options.Trim) # NilErr THEN validateTrim(options.Trim)
    ELSE LET ts == Sub(options.Advanced, "timeStretch")
         IN IF ts = <<>> \/ ~BoolField(ts[1], "enabled") THEN NilErr
            ELSE IF NumField(ts[1], "factor") < 25 \/ NumField(ts[1], "factor") > 400
                 THEN "time stretch factor must be between 0.25 and 4"
            ELSE IF StrField(ts[1], "algorithm") \notin TimeStretchAlgorithms
                 THEN "unsupported time stretch algorithm"
            ELSE NilErr

\* The parse-and-validate prologue of convertImage, convertVideo and
\* convertAudio: the error the conversion returns before any progress is
\* sent, or nil.
validateOptions(fileType, payload) ==
    LET e == CASE fileType = FileTypeImage ->
                     validateImageOptions(ImageConversionOptions(payload))
               [] fileType = FileTypeVideo ->
                     validateVideoOptions(VideoConversionOptions(payload))
               [] OTHER ->
                     validateAudioOptions(AudioConversionOptions(payload))
    IN IF e = NilErr THEN NilErr ELSE "invalid conversion options: " \o e

\* convertImage: the ImageMagick arguments, in the order they are appended.
\* The rotation filters are spelled with a degree sign in the source, which
\* is written "deg" here.
imageCropArgs(options) ==
    IF options.Crop = <<>> THEN <<>>
    ELSE <<"-crop", ToString(options.Crop[1].width) \o "x"
                      \o ToString(options.Crop[1].height) \o "+"
                      \o ToString(options.Crop[1].x) \o "+"
                      \o ToString(options.Crop[1].y)>>

imageResizeArgs(options) ==
    IF options.Width # <<>> /\ options.Height # <<>>
    THEN <<"-resize", ToString(options.Width[1]) \o "x"
                        \o ToString(options.Height[1]) \o "!">>
    ELSE IF options.Width # <<>>
    THEN <<"-resize", ToString(options.Width[1]) \o "x">>
    ELSE IF options.Height # <<>>
    THEN <<"-resize", "x" \o ToString(options.Height[1])>>
    ELSE <<>>

imageFilterArgs(options) ==
    CASE options.Filter = "grayscale" -> <<"-colorspace", "Gray">>
      [] options.Filter = "sepia" -> <<"-sepia-tone", "80%">>
      [] options.Filter = "blur" -> <<"-blur", "0x8">>
      [] options.Filter = "sharpen" -> <<"-sharpen", "0x1">>
      [] options.Filter = "swirl" -> <<"-swirl", "90">>
      [] options.Filter = "barrel-distortion" ->
            <<"-distort", "Barrel", "0.1 0.0 0.0 1.0">>
      [] options.Filter = "oil-painting" -> <<"-paint", "4">>
      [] options.Filter = "vintage" ->
            <<"-modulate", "120,50,100", "-colorize", "10,5,15">>
      [] options.Filter = "emboss" -> <<"-emboss", "2">>
      [] options.Filter = "charcoal" -> <<"-charcoal", "2">>
      [] options.Filter = "sketch" -> <<"-sketch", "0x20+120">>
      [] options.Filter = "rotate-45deg" -> <<"-rotate", "45">>
      [] options.Filter = "rotate-90deg" -> <<"-rotate", "90">>
      [] options.Filter = "rotate-180deg" -> <<"-rotate", "180">>
      [] options.Filter = "rotate-270deg" -> <<"-rotate", "270">>
      [] OTHER -> <<>>

imageQualityArgs(options) ==
    IF options.Format \in {"jpg", "jpeg"}
    THEN <<"-quality", ToString(options.Quality)>> ELSE <<>>

imageTintArgs(options) ==
    IF options.Tint # <<>> /\ options.Tint[1] \notin {"", "#000000"}
    THEN <<"-fill", options.Tint[1], "-tint", "30">> ELSE <<>>

\* An argument list that resizes before it crops.
convertImageArgsResizeFirst(options, inputPath, outputPath) ==
    <<inputPath>> \o imageResizeArgs(options) \o imageCropArgs(options)
        \o imageFilterArgs(options) \o imageQualityArgs(options)
        \o imageTintArgs(options) \o <<outputPath>>

convertImageArgs(options, inputPath, outputPath) ==
    <<inputPath>> \o imageCropArgs(options) \o imageResizeArgs(options)
        \o imageFilterArgs(options) \o imageQualityArgs(options)
        \o imageTintArgs(options) \o <<outputPath>>

\* fmt.Sprintf("%.2f", num / den) in hundredths, for num / den the running
\* speed in hundredths after the halvings (den = 1 or 2 over the validated
\* range).  An odd num over 2 lies halfway between two hundredths; the
\* text is then decided by the float64 nearest to num / 100: it is exact
\* when 25 divides num (round half to even applies), and otherwise lies
\* below the decimal value when (num * 2^49) mod 25 <= 12, where
\* 2^49 mod 25 = 12, and above it when not.
Sprintf2(num, den) ==
    LET q == num \div den
    IN IF num % den = 0 THEN q
       ELSE IF num % 25 = 0 THEN (IF q % 2 = 0 THEN q ELSE q + 1)
       ELSE IF (12 * num) % 25 <= 12 THEN q ELSE q + 1

RECURSIVE atempoHalve(_, _, _)
\* convertAudio: for speed > 2.0 { append "atempo=2.0"; speed /= 2.0 }
atempoHalve(filters, num, den) ==
    IF num > 200 * den
    THEN atempoHalve(Append(filters, 200), num, 2 * den)
    ELSE [filters |-> filters, num |-> num, den |-> den]

RECURSIVE atempoDouble(_, _, _)
\* convertAudio: for speed < 0.5 { append "atempo=0.5"; speed *= 2.0 }
atempoDouble(filters, num, den) ==
    IF num < 50 * den
    THEN atempoDouble(Append(filters, 50), 2 * num, den)
    ELSE [filters |-> filters, num |-> num, den |-> den]

\* convertAudio: the atempo filters for options.Speed, each as the factor
\* its text carries, in hundredths.
audioTempoFilters(speed) ==
    IF speed = 100 THEN <<>>
    ELSE LET h == atempoHalve(<<>>, speed, 1)
             d == atempoDouble(h.filters, h.num, h.den)
         IN IF d.num = 100 * d.den THEN d.filters
            ELSE Append(d.filters, Sprintf2(d.num, d.den))

\* convertVideo: the -af atempo filter for options.Speed.
videoTempoFilters(speed) ==
    IF speed = 100 THEN <<>> ELSE <<Sprintf2(speed, 1)>>

\* fmt.Sprintf("%.2f", x) of a non-negative x given in hundredths.
Fixed2(h) ==
    ToString(h \div 100) \o "." \o ToString((h % 100) \div 10) \o ToString(h % 10)

RECURSIVE Join(_, _)
\* strings.Join(elems, sep)
Join(elems, sep) ==
    IF elems = <<>> THEN ""
    ELSE IF Len(elems) = 1 THEN elems[1]
    ELSE elems[1] \o sep \o Join(Tail(elems), sep)

\* convertVideo / convertAudio: -ss and -t for a trim range.
trimArgs(trim) ==
    IF trim = <<>> THEN <<>>
    ELSE <<"-ss", Fixed2(trim[1].startTime),
           "-t", Fixed2(trim[1].endTime - trim[1].startTime)>>

\* fmt.Sprintf("%.2f", 1.0 / speed) in hundredths.  Over the validated
\* speeds of this model the quotient never lies halfway between two
\* hundredths.
Reciprocal2(speed) == (20000 + speed) \div (2 * speed)

\* convertVideo: the video filters in the order they are appended: scale,
\* Gaussian blur, flips, reversal, speed.
videoFilters(options) ==
    LET scale ==
            IF options.Width # <<>> /\ options.Height # <<>>
            THEN <<"scale=" \o ToString(options.Width[1]) \o ":"
                     \o ToString(options.Height[1])
                     \o (IF options.PreserveAspectRatio
                         THEN ":force_original_aspect_ratio=decrease" ELSE "")>>
            ELSE IF options.Width # <<>>
            THEN <<"scale=" \o ToString(options.Width[1]) \o ":-1">>
            ELSE IF options.Height # <<>>
            THEN <<"scale=-1:" \o ToString(options.Height[1])>>
            ELSE <<>>
        blur == Sub(options.VisualEffects, "gaussianBlur")
        gblur == IF blur # <<>> /\ blur[1] > 0
                 THEN <<"gblur=sigma=" \o ToString(blur[1])>> ELSE <<>>
        hflip == IF Sub(options.Transform, "flipHorizontal") = <<TRUE>>
                 THEN <<"hflip">> ELSE <<>>
        vflip == IF Sub(options.Transform, "flipVertical") = <<TRUE>>
                 THEN <<"vflip">> ELSE <<>>
        reverse == IF Sub(options.Temporal, "reverse") = <<TRUE>>
                   THEN <<"reverse">> ELSE <<>>
        setpts == IF options.Speed # 100
                  THEN <<"setpts=" \o Fixed2(Reciprocal2(options.Speed)) \o "*PTS">>
                  ELSE <<>>
    IN scale \o gblur \o hflip \o vflip \o reverse \o setpts

\* convertVideo: the audio filters, which are the tempo stages.
videoAudioFilters(options) ==
    LET stages == videoTempoFilters(options.Speed)
    IN [i \in 1..Len(stages) |-> "atempo=" \o Fixed2(stages[i])]

\* convertVideo: -crf for the quality setting.
videoQualityArgs(options) ==
    CASE options.Quality = "low" -> <<"-crf", "30">>
      [] options.Quality = "medium" -> <<"-crf", "23">>
      [] options.Quality = "high" -> <<"-crf", "18">>
      [] OTHER -> <<>>

\* convertVideo: the default codecs, then those of the special formats.
videoCodecArgs(options) ==
    <<"-c:v", "libx264", "-c:a", "aac">>
      \o (CASE options.Format = "webm" ->
                   <<"-c:v", "libvpx-vp9", "-c:a", "libopus">>
             [] options.Format = "prores" ->
                   <<"-c:v", "prores_ks", "-profile:v", "2">>
             [] OTHER -> <<>>)

\* convertVideo: the ffmpeg arguments, in the order they are appended.
convertVideoArgs(options, inputPath, outputPath) ==
    LET vf == videoFilters(options)
        af == videoAudioFilters(options)
    IN <<"-i", inputPath>> \o trimArgs(options.Trim)
         \o (IF vf # <<>> THEN <<"-vf", Join(vf, ",")>> ELSE <<>>)
         \o (IF af # <<>> THEN <<"-af", Join(af, ",")>> ELSE <<>>)
         \o videoQualityArgs(options) \o videoCodecArgs(options)
         \o <<"-y", outputPath>>

RECURSIVE timeStretchStages(_, _)
\* convertAudio, "time" algorithm above 2.0:
\* for f := factor; f > 1.0; f /= 2.0 { atempo=2.0 if f >= 2.0, else "%.2f" of f }
timeStretchStages(num, den) ==
    IF num > 100 * den
    THEN <<IF num >= 200 * den THEN 200 ELSE Sprintf2(num, den)>>
           \o timeStretchStages(num, 2 * den)
    ELSE <<>>

\* convertAudio: the atempo stages of a time stretch with the "time"
\* algorithm, each as the factor its text carries, in hundredths.
timeStretchFilters(factor) ==
    IF factor > 200 THEN timeStretchStages(factor, 1) ELSE <<Sprintf2(factor, 1)>>

RECURSIVE timeStretchTexts(_, _)
\* The same loop, with the text of each stage.
timeStretchTexts(num, den) ==
    IF num > 100 * den
    THEN <<IF num >= 200 * den THEN "atempo=2.0"
           ELSE "atempo=" \o Fixed2(Sprintf2(num, den))>>
           \o timeStretchTexts(num, 2 * den)
    ELSE <<>>

\* convertAudio: the filter text of an enabled time stretch.
timeStretchTokens(ts) ==
    LET factor == NumField(ts, "factor")
        algorithm == StrField(ts, "algorithm")
    IN CASE algorithm = "pitch" -> <<"rubberband=tempo=" \o Fixed2(factor)>>
         [] algorithm = "time" ->
               IF factor > 200 THEN timeStretchTexts(factor, 1)
               ELSE <<"atempo=" \o Fixed2(Sprintf2(factor, 1))>>
         [] algorithm = "formant" ->
               <<"asetrate=48000/" \o Fixed2(factor) \o ",aresample=48000">>
         [] OTHER -> <<>>

\* convertAudio: the filter text of the speed stages; the stages the two
\* loops append are written 2.0 and 0.5, the last one with two decimals.
audioSpeedTokens(speed) ==
    LET stages == audioTempoFilters(speed)
    IN [i \in 1..Len(stages) |->
          IF i < Len(stages)
          THEN (IF stages[i] = 200 THEN "atempo=2.0" ELSE "atempo=0.5")
          ELSE "atempo=" \o Fixed2(stages[i])]

\* convertAudio: the audio filters in the order they are appended: volume,
\* normalisation, time stretch, speed.
audioFilters(options) ==
    LET volume == IF options.Volume # 100
                  THEN <<"volume=" \o Fixed2(options.Volume)>> ELSE <<>>
        loudnorm == IF Sub(options.BasicProcessing, "normalize") = <<TRUE>>
                    THEN <<"loudnorm">> ELSE <<>>
        ts == Sub(options.Advanced, "timeStretch")
        stretch == IF ts # <<>> /\ BoolField(ts[1], "enabled")
                   THEN timeStretchTokens(ts[1]) ELSE <<>>
    IN volume \o loudnorm \o stretch \o audioSpeedTokens(options.Speed)

\* convertAudio: codec, sample rate, channels and bitrate.
audioCodecArgs(options) ==
    (CASE options.Format = "mp3" -> <<"-c:a", "libmp3lame">>
       [] options.Format = "wav" -> <<"-c:a", "pcm_s16le">>
       [] options.Format = "aac" -> <<"-c:a", "aac">>
       [] options.Format = "ogg" -> <<"-c:a", "libvorbis">>
       [] options.Format = "flac" -> <<"-c:a", "flac">>
       [] options.Format = "opus" -> <<"-c:a", "libopus">>
       [] options.Format = "ac3" -> <<"-c:a", "ac3">>
       [] OTHER -> <<>>)
      \o <<"-ar", options.SampleRate>>
      \o (CASE options.Channels = "mono" -> <<"-ac", "1">>
             [] options.Channels = "stereo" -> <<"-ac", "2">>
             [] options.Channels = "5.1" -> <<"-ac", "6">>
             [] options.Channels = "7.1" -> <<"-ac", "8">>
             [] OTHER -> <<>>)
      \o (IF options.Format \notin {"wav", "flac", "alac"}
          THEN <<"-b:a", options.Bitrate \o "k">> ELSE <<>>)

\* An argument list with one -af flag for every audio filter.
convertAudioArgsFlagPerFilter(options, inputPath, outputPath) ==
    LET af == audioFilters(options)
        RECURSIVE flags(_)
        flags(fs) == IF fs = <<>> THEN <<>> ELSE <<"-af", Head(fs)>> \o flags(Tail(fs))
    IN <<"-i", inputPath>> \o trimArgs(options.Trim) \o flags(af)
         \o audioCodecArgs(options) \o <<"-y", outputPath>>

\* convertAudio: the ffmpeg arguments, in the order they are appended.
convertAudioArgs(options, inputPath, outputPath) ==
    LET af == audioFilters(options)
    IN <<"-i", inputPath>> \o trimArgs(options.Trim)
         \o (IF af # <<>> THEN <<"-af", Join(af, ",")>> ELSE <<>>)
         \o audioCodecArgs(options) \o <<"-y", outputPath>>

\* The substrings enhanceFFmpegError looks for in an error text.
RecognisedPatterns ==
    <<"No such file or directory", "Permission denied", "Invalid data found",
      "Decoder not found", "Encoder not found">>

\* An error handed to the classifier is its text together with what the
\* text scans tell about it: exit is <<n>> when the text starts with
\* "exit status n" and <<>> when it does not, contains is the set of
\* recognised substrings that occur in it.
\*
\* strings.Contains(arg, "scale=") with ":0" or "0:", evaluated for the
\* filter tokens of this model ("640:" contains "0:").
SuspectScale(arg) == arg \in {"scale=0:-1", "scale=640:-1", "scale=640:0"}

\* strings.Contains(arg, "gblur") with "sigma=0".
SuspectBlur(arg) == arg \in {"gblur=sigma=0"}

RECURSIVE filterSuggestions(_)
\* diagnoseExitCode8Error: the loop over the arguments.
filterSuggestions(args) ==
    IF args = <<>> THEN <<>>
    ELSE (IF SuspectScale(Head(args))
          THEN <<"Invalid scale dimensions (width or height is 0)">> ELSE <<>>)
         \o (IF SuspectBlur(Head(args)) THEN <<"Invalid blur sigma value">> ELSE <<>>)
         \o filterSuggestions(Tail(args))

\* A diagnosis that does not probe the output directory.
diagnoseExitCode8ErrorSkipsOutputDir(errorMsg, args, env) ==
    LET suggestions ==
            (IF ~env.inputAccessible THEN <<"Input file is not accessible">> ELSE <<>>)
            \o filterSuggestions(args)
            \o (IF env.sameExt
                THEN <<"Input and output formats are the same - consider changing output format">>
                ELSE <<>>)
        baseMsg == "FFmpeg parameter/data error (exit code 8): " \o errorMsg
    IN IF suggestions # <<>>
       THEN [head |-> baseMsg, suggestions |-> suggestions, command |-> args]
       ELSE [head |-> baseMsg \o ". This usually indicates invalid filter parameters, corrupted input data, or incompatible format conversion",
             suggestions |-> <<>>, command |-> args]

\* diagnoseExitCode8Error.  env tells what the probes of the file system
\* find: os.Stat of the input, os.Create of a test file in the output
\* directory, and whether the two paths have the same extension.
diagnoseExitCode8Error(errorMsg, args, env) ==
    LET suggestions ==
            (IF ~env.inputAccessible THEN <<"Input file is not accessible">> ELSE <<>>)
            \o (IF ~env.outputWritable THEN <<"Output directory is not writable">> ELSE <<>>)
            \o filterSuggestions(args)
            \o (IF env.sameExt
                THEN <<"Input and output formats are the same - consider changing output format">>
                ELSE <<>>)
        baseMsg == "FFmpeg parameter/data error (exit code 8): " \o errorMsg
    IN IF suggestions # <<>>
       THEN [head |-> baseMsg, suggestions |-> suggestions, command |-> args]
       ELSE [head |-> baseMsg \o ". This usually indicates invalid filter parameters, corrupted input data, or incompatible format conversion",
             suggestions |-> <<>>, command |-> args]

\* enhanceFFmpegError: the classified error as its parts: the head of the
\* message, the suggestions, and the command when the message quotes it.
enhanceFFmpegError(originalErr, inputPath, outputPath, args, env) ==
    LET errorMsg == originalErr.text
        exitCode == IF originalErr.exit = <<>> THEN 0 ELSE originalErr.exit[1]
        Plain(text) == [head |-> text, suggestions |-> <<>>, command |-> <<>>]
    IN CASE exitCode = 1 ->
               [head |-> "FFmpeg general error (exit code 1): " \o errorMsg
                           \o ". This usually indicates invalid parameters or unsupported codec",
                suggestions |-> <<>>, command |-> args]
         [] exitCode = 8 -> diagnoseExitCode8Error(errorMsg, args, env)
         [] OTHER ->
               IF RecognisedPatterns[1] \in originalErr.contains
               THEN Plain("file not found error: input file '" \o inputPath
                            \o "' may have been moved or deleted during processing")
               ELSE IF RecognisedPatterns[2] \in originalErr.contains
               THEN Plain("permission error: insufficient permissions to read '"
                            \o inputPath \o "' or write to '" \o outputPath \o "'")
               ELSE IF RecognisedPatterns[3] \in originalErr.contains
               THEN Plain("corrupted file: the input file '" \o inputPath
                            \o "' appears to be corrupted or in an unsupported format")
               ELSE IF RecognisedPatterns[4] \in originalErr.contains
               THEN Plain("codec not supported: FFmpeg cannot decode the input file format. Please try a different input file")
               ELSE IF RecognisedPatterns[5] \in originalErr.contains
               THEN Plain("output format not supported: FFmpeg cannot encode to the requested output format")
               ELSE [head |-> "FFmpeg conversion failed (exit code "
                                \o ToString(exitCode) \o "): " \o errorMsg,
                     suggestions |-> <<>>, command |-> args]

\* The text of a classified error.
ErrorText(e) ==
    e.head
      \o (IF e.suggestions # <<>>
          THEN ". Possible issues: " \o Join(e.suggestions, "; ") ELSE "")
      \o (IF e.command # <<>>
          THEN ". Command: ffmpeg " \o Join(e.command, " ") ELSE "")

\* The fixed progress samples each conversion sends before it runs the encoder.
StageSamples(fileType) ==
    IF fileType = FileTypeImage THEN <<10, 30, 60, 80>> ELSE <<10, 20, 40, 60>>

\* runFFmpegWithProgress: seconds of an hh:mm:ss.cc match, in hundredths.
ParseClock(line) == ((line.h * 60 + line.m) * 60 + line.s) * 100 + line.cs

\* runFFmpegWithProgress: int((currentTime / totalDuration) * 100), capped at 100.
ProgressOf(currentTime, totalDuration) ==
    LET progress == (currentTime * 100) \div totalDuration
    IN IF progress > 100 THEN 100 ELSE progress

----------------------------------------------------------------------------
(* Inputs *)

\* Accepted uploads: the declared MIME category and the options payload.
\* A valid image payload and one without quality, a valid video payload and
\* one whose trim range ends before it starts, and an audio payload without
\* sample rate and channels.  Audio conversions send the same fixed samples
\* as video conversions and run the same encoder.
Uploads ==
    {[Type |-> FileTypeImage,
      Options |-> [format |-> "png", width |-> 800, filter |-> "grayscale",
                   quality |-> 80]],
     [Type |-> FileTypeImage,
      Options |-> [format |-> "png", width |-> 800, filter |-> "grayscale"]],
     [Type |-> FileTypeVideo,
      Options |-> [format |-> "mp4", quality |-> "medium", speed |-> 100]],
     [Type |-> FileTypeVideo,
      Options |-> [format |-> "mp4", quality |-> "medium", speed |-> 100,
                   trim |-> [startTime |-> 500, endTime |-> 300]]],
     [Type |-> FileTypeAudio,
      Options |-> [format |-> "mp3", bitrate |-> "192", speed |-> 100,
                   volume |-> 100]]}

\* Lines an encoder writes to stderr: a total-duration announcement, a
\* current-position announcement, or anything else.
StderrLines ==
    {[kind |-> "duration", h |-> 0, m |-> 0, s |-> 2, cs |-> 0],
     [kind |-> "time", h |-> 0, m |-> 0, s |-> 0, cs |-> 50],
     [kind |-> "other", h |-> 0, m |-> 0, s |-> 0, cs |-> 0]}

ExitCodes == {0, 1}

ResultURLOf(jobID) == "/api/download/" \o ToString(jobID)

----------------------------------------------------------------------------
(* State after NewJobManager, NewConverter and NewConversionHandler *)

\* spawned and exit are the history of the job's encoder process: whether
\* cmd.Start() was called for it, and the exit code cmd.Wait() reported.
IdleWorker ==
    [pc |-> "none", stage |-> 0, totalDuration |-> 0, lines |-> 0, cause |-> "none",
     spawned |-> FALSE, exit |-> <<>>]

IdlePoll == [pc |-> "idle", id |-> NoJob, field |-> 0, resp |-> [code |-> 0]]

NoOp == [op |-> "none", id |-> NoJob, arg |-> "", err |-> NilErr]

NoDiag == [pc |-> "none"]
NoStaging == [pc |-> "none", files |-> {}]

NoBuild == [pc |-> "none", kind |-> "", payload |-> <<>>, filters |-> <<>>, args |-> <<>>]

Init ==
    /\ jobs = <<>>
    /\ progressCh = <<>>
    /\ created = 0
    /\ now = 1
    /\ worker = [i \in JobIDs |-> IdleWorker]
    /\ poll = IdlePoll
    /\ lastOp = NoOp
    /\ calls = 0
    /\ late = {}
    /\ mu = <<>>
    /\ diag = NoDiag
    /\ staging = NoStaging
    /\ built = NoBuild

\* jm.mu.Lock() / jm.mu.RLock() with the deferred unlock: a registry method
\* waits until no goroutine holds the mutex, runs to its return within the
\* step and leaves the mutex unlocked.
WithLock == mu = <<>> /\ mu' = mu

\* time advances
Tick ==
    /\ now < MaxClock
    /\ now' = now + 1
    /\ UNCHANGED <<jobs, progressCh, created, worker, poll, lastOp, calls, late, mu, built, diag, staging>>

----------------------------------------------------------------------------
(* handleProgressUpdates: the relay goroutine *)

\* A relay that takes the newest queued sample instead of the oldest.
handleProgressUpdatesNewestFirst ==
    /\ progressCh # <<>>
    /\ LET u == progressCh[Len(progressCh)]
       IN /\ jobs' = UpdateJobProgress(jobs, u.JobID, u.Progress).jobs
          /\ late' = IF u.JobID \in DOMAIN jobs /\ IsTerminal(jobs[u.JobID].Status)
                     THEN late \cup {u.JobID} ELSE late
    /\ progressCh' = SubSeq(progressCh, 1, Len(progressCh) - 1)
    /\ WithLock
    /\ UNCHANGED <<created, now, worker, poll, lastOp, calls, built, diag, staging>>

\* One pass of the loop: the oldest queued sample is received and handed to
\* UpdateJobProgress.  The mailbox never fills in these runs, so the moment
\* of the receive is not observable apart from the update it leads to.
handleProgressUpdates ==
    /\ progressCh # <<>>
    /\ LET u == Head(progressCh)
       IN /\ jobs' = UpdateJobProgress(jobs, u.JobID, u.Progress).jobs
          /\ late' = IF u.JobID \in DOMAIN jobs /\ IsTerminal(jobs[u.JobID].Status)
                     THEN late \cup {u.JobID} ELSE late
    /\ progressCh' = Tail(progressCh)
    /\ WithLock
    /\ UNCHANGED <<created, now, worker, poll, lastOp, calls, built, diag, staging>>

----------------------------------------------------------------------------
(* ConversionHandler.UploadFile, ConversionHandler.processConversion and   *)
(* Converter.ConvertFile.  A step is one access to the registry or to the  *)
(* progress channel together with the local computation that leads to it.  *)

\* The request is parsed and its file type is known: the job is created and
\* saveUploadedFile runs.
UploadFile(up, saved) ==
    /\ created < Cardinality(JobIDs)
    /\ up \in Uploads
    /\ created' = created + 1
    /\ jobs' = CreateJob(jobs, created + 1, [Type |-> up.Type], up.Options, now)
    /\ worker' = [worker EXCEPT
                    ![created + 1].pc = IF saved THEN "start" ELSE "savefailed"]
    /\ WithLock
    /\ UNCHANGED <<progressCh, now, poll, lastOp, calls, late, built, diag, staging>>

SaveFailedNoReturn(id) ==
    /\ worker[id].pc = "savefailed"
    /\ jobs' = UpdateJobError(jobs, id, "Failed to save uploaded file", now).jobs
    /\ worker' = [worker EXCEPT ![id].pc = "start", ![id].cause = "save"]
    /\ WithLock
    /\ UNCHANGED <<progressCh, created, now, poll, lastOp, calls, late, built, diag, staging>>

\* UploadFile that answers the failed save without touching the job.
SaveFailedLeavesPending(id) ==
    /\ worker[id].pc = "savefailed"
    /\ worker' = [worker EXCEPT ![id].pc = "done", ![id].cause = "save"]
    /\ WithLock
    /\ UNCHANGED <<jobs, progressCh, created, now, poll, lastOp, calls, late, built, diag, staging>>

\* UploadFile after saveUploadedFile failed: the job is marked failed and
\* no worker is started.
SaveFailed(id) ==
    /\ worker[id].pc = "savefailed"
    /\ jobs' = UpdateJobError(jobs, id, "Failed to save uploaded file", now).jobs
    /\ worker' = [worker EXCEPT ![id].pc = "done", ![id].cause = "save"]
    /\ WithLock
    /\ UNCHANGED <<progressCh, created, now, poll, lastOp, calls, late, built, diag, staging>>

\* processConversion: UpdateJobStatus(job.ID, StatusProcessing)
StartProcessing(id) ==
    /\ worker[id].pc = "start"
    /\ LET r == UpdateJobStatus(jobs, id, StatusProcessing, now)
       IN /\ jobs' = r.jobs
          /\ worker' = [worker EXCEPT
                          ![id].pc = IF r.err # NilErr THEN "done" ELSE "convert"]
    /\ WithLock
    /\ UNCHANGED <<progressCh, created, now, poll, lastOp, calls, late, built, diag, staging>>

\* processConversion after ConvertFile returned err: the registry it leaves
\* and where the worker goes next.
AfterConvertNoReturn(J, jobID, err, t) ==
    LET e == IF err # NilErr THEN UpdateJobError(J, jobID, err, t).jobs ELSE J
    IN [jobs |-> UpdateJobResult(e, jobID, ResultURLOf(jobID)).jobs, pc |-> "complete"]

AfterConvert(J, jobID, err, t) ==
    IF err # NilErr
    THEN [jobs |-> UpdateJobError(J, jobID, err, t).jobs, pc |-> "done"]
    ELSE LET r == UpdateJobResult(J, jobID, ResultURLOf(jobID))
         IN IF r.err # NilErr
            THEN [jobs |-> UpdateJobError(r.jobs, jobID,
                                          "Failed to update job result", t).jobs,
                  pc |-> "done"]
            ELSE [jobs |-> r.jobs, pc |-> "complete"]

\* ConvertFile returns err to processConversion, which records the outcome;
\* the locals of the conversion are gone.
ConvertFileReturnsAfter(id, err, why, spawned, exit) ==
    LET r == AfterConvert(jobs, id, err, now)
    IN /\ jobs' = r.jobs
       /\ worker' = [worker EXCEPT
                       ![id] = [IdleWorker EXCEPT
                                  !.pc = r.pc,
                                  !.cause = IF err # NilErr THEN why ELSE "none",
                                  !.spawned = spawned,
                                  !.exit = exit]]
       /\ WithLock

ConvertFileReturns(id, err, why) ==
    ConvertFileReturnsAfter(id, err, why, worker[id].spawned, worker[id].exit)

\* ConvertFile that goes on to the first progress sample without validating
\* the options.
ConvertFileBeginSkipsValidation(id, inputOk) ==
    /\ worker[id].pc = "convert"
    /\ IF ~inputOk
       THEN /\ ConvertFileReturns(id, "input validation failed: input file does not exist",
                                  "input")
            /\ UNCHANGED progressCh
       ELSE /\ progressCh' = SendProgressUpdate(progressCh, id,
                                  StageSamples(jobs[id].OriginalFile.Type)[1])
            /\ worker' = [worker EXCEPT ![id].pc = "stages", ![id].stage = 2]
            /\ UNCHANGED <<jobs, mu>>
    /\ UNCHANGED <<created, now, poll, lastOp, calls, late, built, diag, staging>>

\* ConvertFile up to the first progress sample: validateInputFile, then the
\* conversion of the job's file type parses and validates the options.
ConvertFileBegin(id, inputOk) ==
    /\ worker[id].pc = "convert"
    /\ LET e == IF ~inputOk
                THEN "input validation failed: input file does not exist"
                ELSE validateOptions(jobs[id].OriginalFile.Type, jobs[id].Options)
       IN IF e # NilErr
          THEN /\ ConvertFileReturns(id, e, IF inputOk THEN "options" ELSE "input")
               /\ UNCHANGED progressCh
          ELSE /\ progressCh' = SendProgressUpdate(progressCh, id,
                                     StageSamples(jobs[id].OriginalFile.Type)[1])
               /\ worker' = [worker EXCEPT ![id].pc = "stages", ![id].stage = 2]
               /\ UNCHANGED <<jobs, mu>>
    /\ UNCHANGED <<created, now, poll, lastOp, calls, late, built, diag, staging>>

\* convertImage: os.MkdirAll of the output directory fails.
MkdirFails(id) ==
    /\ worker[id].pc = "stages"
    /\ worker[id].stage = 2
    /\ jobs[id].OriginalFile.Type = FileTypeImage
    /\ ConvertFileReturns(id, "failed to create output directory", "mkdir")
    /\ UNCHANGED <<progressCh, created, now, poll, lastOp, calls, late, built, diag, staging>>

\* The next fixed progress sample, sent while the arguments are built.
SendStage(id) ==
    /\ worker[id].pc = "stages"
    /\ LET samples == StageSamples(jobs[id].OriginalFile.Type)
           k == worker[id].stage
       IN /\ progressCh' = SendProgressUpdate(progressCh, id, samples[k])
          /\ worker' = [worker EXCEPT
                          ![id].stage = IF k = Len(samples) THEN 0 ELSE k + 1,
                          ![id].pc = IF k = Len(samples) THEN "spawn" ELSE "stages"]
    /\ UNCHANGED <<jobs, created, now, poll, lastOp, calls, late, mu, built, diag, staging>>

\* An encoder run inside a locked section of the registry: the mutex is
\* held from cmd.Start() on.
SpawnHoldsLock(id, started) ==
    /\ worker[id].pc = "spawn"
    /\ IF started
       THEN /\ worker' = [worker EXCEPT ![id].pc = "running", ![id].spawned = TRUE]
            /\ mu = <<>>
            /\ mu' = <<id>>
            /\ UNCHANGED jobs
       ELSE ConvertFileReturnsAfter(id, "failed to start FFmpeg", "start", TRUE, <<>>)
    /\ UNCHANGED <<progressCh, created, now, poll, lastOp, calls, late, built, diag, staging>>

\* runFFmpegWithProgress / runImageMagickWithProgress: cmd.Start()
Spawn(id, started) ==
    /\ worker[id].pc = "spawn"
    /\ IF started
       THEN /\ worker' = [worker EXCEPT ![id].pc = "running", ![id].spawned = TRUE]
            /\ UNCHANGED <<jobs, mu>>
       ELSE ConvertFileReturnsAfter(id,
               IF jobs[id].OriginalFile.Type = FileTypeImage
               THEN "ImageMagick conversion failed: failed to start ImageMagick"
               ELSE "failed to start FFmpeg",
               "start", TRUE, <<>>)
    /\ UNCHANGED <<progressCh, created, now, poll, lastOp, calls, late, built, diag, staging>>

\* One pass of the scanner loop: a line of the encoder's stderr.  The
\* ImageMagick runner only keeps the line for the error text.
EncoderLine(id, line) ==
    /\ worker[id].pc = "running"
    /\ worker[id].lines < MaxLines
    /\ line \in StderrLines
    /\ LET ffmpeg == jobs[id].OriginalFile.Type # FileTypeImage
           total == IF ffmpeg /\ line.kind = "duration"
                    THEN ParseClock(line) ELSE worker[id].totalDuration
       IN /\ worker' = [worker EXCEPT
                          ![id].lines = @ + 1, ![id].totalDuration = total]
          /\ progressCh' =
                IF ffmpeg /\ line.kind = "time" /\ total > 0
                THEN SendProgressUpdate(progressCh, id,
                                        ProgressOf(ParseClock(line), total))
                ELSE progressCh
    /\ UNCHANGED <<jobs, created, now, poll, lastOp, calls, late, mu, built, diag, staging>>

\* cmd.Wait() with its error discarded: every exit counts as a clean one.
EncoderExitIgnoresCode(id, code) ==
    /\ worker[id].pc = "running"
    /\ code \in ExitCodes
    /\ IF jobs[id].OriginalFile.Type = FileTypeImage
       THEN /\ worker' = [worker EXCEPT
                            ![id] = [IdleWorker EXCEPT !.pc = "final", !.spawned = TRUE,
                                                       !.exit = <<code>>]]
            /\ UNCHANGED <<jobs, mu>>
       ELSE ConvertFileReturnsAfter(id, NilErr, "exit", TRUE, <<code>>)
    /\ UNCHANGED <<progressCh, created, now, poll, lastOp, calls, late, built, diag, staging>>

\* The stream ends and cmd.Wait() returns the exit status; the error carries
\* the collected stderr text (elided here) when there is any.  convertImage
\* has one more sample to send after a clean exit.
EncoderExit(id, code) ==
    /\ worker[id].pc = "running"
    /\ code \in ExitCodes
    /\ LET image == jobs[id].OriginalFile.Type = FileTypeImage
           status == "exit status " \o ToString(code)
           stderr == IF worker[id].lines = 0 THEN ""
                     ELSE IF image THEN ". ImageMagick stderr: ..."
                     ELSE ". FFmpeg stderr: ..."
       IN IF image /\ code = 0
          THEN /\ worker' = [worker EXCEPT
                               ![id] = [IdleWorker EXCEPT !.pc = "final", !.spawned = TRUE,
                                                          !.exit = <<code>>]]
               /\ UNCHANGED <<jobs, mu>>
          ELSE ConvertFileReturnsAfter(id,
                  IF code = 0 THEN NilErr
                  ELSE IF image
                  THEN "ImageMagick conversion failed: " \o status \o stderr
                  ELSE status \o stderr,
                  "exit", TRUE, <<code>>)
    /\ UNCHANGED <<progressCh, created, now, poll, lastOp, calls, late, built, diag, staging>>

\* convertImage: the sample sent after a successful run.
SendFinal(id) ==
    /\ worker[id].pc = "final"
    /\ progressCh' = SendProgressUpdate(progressCh, id, 100)
    /\ worker' = [worker EXCEPT ![id].pc = "result"]
    /\ UNCHANGED <<jobs, created, now, poll, lastOp, calls, late, mu, built, diag, staging>>

\* convertImage returned nil.
ImageConverted(id) ==
    /\ worker[id].pc = "result"
    /\ ConvertFileReturns(id, NilErr, "none")
    /\ UNCHANGED <<progressCh, created, now, poll, lastOp, calls, late, built, diag, staging>>

\* processConversion: UpdateJobStatus(job.ID, StatusCompleted)
MarkCompleted(id) ==
    /\ worker[id].pc = "complete"
    /\ jobs' = UpdateJobStatus(jobs, id, StatusCompleted, now).jobs
    /\ worker' = [worker EXCEPT ![id].pc = "done"]
    /\ WithLock
    /\ UNCHANGED <<progressCh, created, now, poll, lastOp, calls, late, built, diag, staging>>

----------------------------------------------------------------------------
(* ConversionHandler.GetJobStatus: GetJob hands out the stored record      *)
(* itself; c.JSON reads its fields after the read lock is released.        *)

ResponseFields == <<"Status", "Progress", "ResultURL", "Error", "CompletedAt">>

\* The client polls an identifier UploadFile has returned to it, or one the
\* registry never handed out.
GetJobStatus(id) ==
    /\ poll.pc = "idle"
    /\ \/ id = NoJob
       \/ /\ id \in 1..created
          /\ worker[id].pc # "savefailed"
          /\ worker[id].cause # "save"
    /\ LET r == GetJob(jobs, id)
       IN /\ poll' = IF r.err # NilErr
                     THEN [IdlePoll EXCEPT !.id = id, !.resp = [code |-> 404]]
                     ELSE [pc |-> "marshal", id |-> id, field |-> 1,
                           resp |-> [code |-> 200]]
    /\ WithLock
    /\ UNCHANGED <<jobs, progressCh, created, now, worker, lastOp, calls, late, built, diag, staging>>

MarshalField ==
    /\ poll.pc = "marshal"
    /\ LET f == ResponseFields[poll.field]
           resp == [k \in DOMAIN poll.resp \cup {f} |->
                       IF k = f THEN jobs[poll.id][f] ELSE poll.resp[k]]
       IN poll' = IF poll.field = Len(ResponseFields)
                  THEN [pc |-> "idle", id |-> poll.id, field |-> 0, resp |-> resp]
                  ELSE [poll EXCEPT !.field = @ + 1, !.resp = resp]
    /\ UNCHANGED <<jobs, progressCh, created, now, worker, lastOp, calls, late, mu, built, diag, staging>>

----------------------------------------------------------------------------
(* The orchestrated flow: uploads, their workers and the relay *)

Worker(id) ==
    \/ SaveFailed(id)
    \/ StartProcessing(id)
    \/ \E inputOk \in BOOLEAN : ConvertFileBegin(id, inputOk)
    \/ MkdirFails(id)
    \/ SendStage(id)
    \/ \E started \in BOOLEAN : Spawn(id, started)
    \/ \E line \in StderrLines : EncoderLine(id, line)
    \/ \E code \in ExitCodes : EncoderExit(id, code)
    \/ SendFinal(id)
    \/ ImageConverted(id)
    \/ MarkCompleted(id)

Next ==
    \/ \E up \in Uploads, saved \in BOOLEAN : UploadFile(up, saved)
    \/ \E id \in JobIDs : Worker(id)
    \/ handleProgressUpdates

Spec == Init /\ [][Next]_vars

\* One upload, its worker and the relay, with a client polling the status.
NextPoll ==
    \/ \E up \in Uploads, saved \in BOOLEAN : created = 0 /\ UploadFile(up, saved)
    \/ Worker(1)
    \/ handleProgressUpdates
    \/ \E id \in {1, NoJob} : GetJobStatus(id)
    \/ MarshalField

SpecPoll == Init /\ [][NextPoll]_vars

\* The same under fair scheduling of the job's goroutine, with every
\* started encoder ending its output and exiting; the client may poll for
\* ever.
SpecPollFair == Init /\ [][NextPoll]_vars /\ WF_vars(Worker(1))

----------------------------------------------------------------------------
(* The registry under direct calls: any caller, any order, any argument *)

ProgressInputs == {30, 100}
ErrorInputs == {"conversion failed"}
MaxAges == {0, 1}
CallIDs == JobIDs \cup {NoJob}

Called(op, id, arg, err) ==
    /\ calls < MaxCalls
    /\ calls' = calls + 1
    /\ lastOp' = [op |-> op, id |-> id, arg |-> arg, err |-> err]

CallCreateJob(up) ==
    /\ created < Cardinality(JobIDs)
    /\ up \in Uploads
    /\ created' = created + 1
    /\ jobs' = CreateJob(jobs, created + 1, [Type |-> up.Type], up.Options, now)
    /\ Called("CreateJob", created + 1, "", NilErr)
    /\ WithLock
    /\ UNCHANGED <<progressCh, now, worker, poll, late, built, diag, staging>>

CallGetJob(id) ==
    /\ Called("GetJob", id, "", GetJob(jobs, id).err)
    /\ WithLock
    /\ UNCHANGED <<jobs, progressCh, created, now, worker, poll, late, built, diag, staging>>

CallUpdateJobStatus(id, status) ==
    /\ LET r == UpdateJobStatus(jobs, id, status, now)
       IN /\ jobs' = r.jobs
          /\ Called("UpdateJobStatus", id, status, r.err)
    /\ WithLock
    /\ UNCHANGED <<progressCh, created, now, worker, poll, late, built, diag, staging>>

CallUpdateJobProgress(id, progress) ==
    /\ LET r == UpdateJobProgress(jobs, id, progress)
       IN /\ jobs' = r.jobs
          /\ Called("UpdateJobProgress", id, "", r.err)
    /\ WithLock
    /\ UNCHANGED <<progressCh, created, now, worker, poll, late, built, diag, staging>>

CallUpdateJobResult(id) ==
    /\ LET r == UpdateJobResult(jobs, id, ResultURLOf(id))
       IN /\ jobs' = r.jobs
          /\ Called("UpdateJobResult", id, "", r.err)
    /\ WithLock
    /\ UNCHANGED <<progressCh, created, now, worker, poll, late, built, diag, staging>>

CallUpdateJobError(id, errorMsg) ==
    /\ LET r == UpdateJobError(jobs, id, errorMsg, now)
       IN /\ jobs' = r.jobs
          /\ Called("UpdateJobError", id, errorMsg, r.err)
    /\ WithLock
    /\ UNCHANGED <<progressCh, created, now, worker, poll, late, built, diag, staging>>

CallSendProgressUpdate(id, progress) ==
    /\ progressCh' = SendProgressUpdate(progressCh, id, progress)
    /\ Called("SendProgressUpdate", id, "", NilErr)
    /\ UNCHANGED <<jobs, created, now, worker, poll, late, mu, built, diag, staging>>

CallCleanupOldJobs(maxAge) ==
    /\ jobs' = CleanupOldJobs(jobs, maxAge, now)
    /\ Called("CleanupOldJobs", NoJob, "", NilErr)
    /\ WithLock
    /\ UNCHANGED <<progressCh, created, now, worker, poll, late, built, diag, staging>>

NextRegistry ==
    \/ \E up \in Uploads : CallCreateJob(up)
    \/ \E id \in CallIDs : CallGetJob(id)
    \/ \E id \in CallIDs, status \in Statuses : CallUpdateJobStatus(id, status)
    \/ \E id \in CallIDs, progress \in ProgressInputs : CallUpdateJobProgress(id, progress)
    \/ \E id \in CallIDs : CallUpdateJobResult(id)
    \/ \E id \in CallIDs, errorMsg \in ErrorInputs : CallUpdateJobError(id, errorMsg)
    \/ \E id \in CallIDs, progress \in ProgressInputs : CallSendProgressUpdate(id, progress)
    \/ \E maxAge \in MaxAges : CallCleanupOldJobs(maxAge)
    \/ handleProgressUpdates
    \/ Tick

SpecRegistry == Init /\ [][NextRegistry]_vars

----------------------------------------------------------------------------
(* The mailbox under a burst of samples: senders call SendProgressUpdate     *)
(* faster than the relay consumes.  lastOp.arg records which branch of the  *)
(* select the call took.                                                    *)

MailboxInputs == {50}

MailboxSend(id, progress) ==
    /\ calls < MaxSends
    /\ calls' = calls + 1
    /\ progressCh' = SendProgressUpdate(progressCh, id, progress)
    /\ lastOp' = [op |-> "SendProgressUpdate", id |-> id,
                  arg |-> IF progressCh' = progressCh THEN "skipped" ELSE "sent",
                  err |-> NilErr]
    /\ UNCHANGED <<jobs, created, now, worker, poll, late, mu, built, diag, staging>>

NextMailbox ==
    \/ \E progress \in MailboxInputs : MailboxSend(1, progress)
    \/ handleProgressUpdates

SpecMailbox == Init /\ [][NextMailbox]_vars

----------------------------------------------------------------------------
(* The tempo filters of one conversion: convertAudio or convertVideo parses *)
(* a payload with some speed, validates it and builds the atempo chain.    *)

SpeedInputs == 20..410

TempoPayload(kind, speed) ==
    IF kind = FileTypeAudio
    THEN [format |-> "mp3", bitrate |-> "192", sampleRate |-> "44100",
          channels |-> "stereo", volume |-> 100, speed |-> speed]
    ELSE [format |-> "mp4", quality |-> "medium", speed |-> speed]

InitTempo ==
    /\ jobs = <<>>
    /\ progressCh = <<>>
    /\ created = 0
    /\ now = 1
    /\ worker = [i \in JobIDs |-> IdleWorker]
    /\ poll = IdlePoll
    /\ lastOp = NoOp
    /\ calls = 0
    /\ late = {}
    /\ mu = <<>>
    /\ diag = NoDiag
    /\ staging = NoStaging
    /\ \E kind \in {FileTypeAudio, FileTypeVideo}, speed \in SpeedInputs :
          built = [pc |-> "options", kind |-> kind,
                   payload |-> TempoPayload(kind, speed), filters |-> <<>>,
                   args |-> <<>>]

\* convertAudio up to the audio filter chain.
BuildAudioTempo ==
    /\ built.pc = "options"
    /\ built.kind = FileTypeAudio
    /\ LET options == AudioConversionOptions(built.payload)
       IN built' = IF validateAudioOptions(options) # NilErr
                   THEN [built EXCEPT !.pc = "rejected"]
                   ELSE [built EXCEPT !.pc = "built",
                                      !.filters = audioTempoFilters(options.Speed)]
    /\ UNCHANGED <<jobs, progressCh, created, now, worker, poll, lastOp, calls, late, mu, diag, staging>>

\* convertVideo up to the -af argument.
BuildVideoTempo ==
    /\ built.pc = "options"
    /\ built.kind = FileTypeVideo
    /\ LET options == VideoConversionOptions(built.payload)
       IN built' = IF validateVideoOptions(options) # NilErr
                   THEN [built EXCEPT !.pc = "rejected"]
                   ELSE [built EXCEPT !.pc = "built",
                                      !.filters = videoTempoFilters(options.Speed)]
    /\ UNCHANGED <<jobs, progressCh, created, now, worker, poll, lastOp, calls, late, mu, diag, staging>>

NextTempo ==
    \/ BuildAudioTempo
    \/ BuildVideoTempo

SpecTempo == InitTempo /\ [][NextTempo]_vars

----------------------------------------------------------------------------
(* The arguments of one conversion: convertImage, convertVideo or          *)
(* convertAudio parses a payload, validates it and builds the encoder's    *)
(* argument list.                                                          *)

InputPath == "uploads/1_input"
OutputPath == "outputs/1_converted"

\* The payloads with and without an optional key.
Optional(key, values) == {<<>>} \cup {[k \in {key} |-> v] : v \in values}

ImagePayloads ==
    {[format |-> f] @@ q @@ c @@ w @@ h @@ fl @@ t :
        f \in ImageFormats,
        q \in Optional("quality", {80}),
        c \in Optional("crop", {[x |-> 10, y |-> 20, width |-> 100, height |-> 50]}),
        w \in Optional("width", {800}),
        h \in Optional("height", {600}),
        fl \in Optional("filter", {"grayscale", "vintage"}),
        t \in Optional("tint", {"#ff0000"})}

VideoPayloads ==
    {[format |-> f, quality |-> q, speed |-> s] @@ w @@ ve @@ tr @@ te @@ t :
        f \in VideoFormats,
        q \in {"low", "high"},
        s \in {25, 100, 300, 500},
        w \in Optional("width", {640}),
        ve \in Optional("visualEffects", {[gaussianBlur |-> 5]}),
        tr \in Optional("transform", {[flipHorizontal |-> TRUE]}),
        te \in Optional("temporal", {[reverse |-> TRUE]}),
        t \in Optional("trim", {[startTime |-> 100, endTime |-> 350]})}

AudioPayloads ==
    {[format |-> f, sampleRate |-> "44100", channels |-> "stereo",
      speed |-> s, volume |-> v] @@ b @@ bp @@ adv :
        f \in AudioFormats,
        s \in {25, 100, 300},
        v \in {100, 150},
        b \in Optional("bitrate", {"192"}),
        bp \in Optional("basicProcessing", {[normalize |-> TRUE]}),
        adv \in Optional("advanced",
                  {[timeStretch |-> [enabled |-> TRUE, factor |-> fa, algorithm |-> al]] :
                      fa \in {25, 150, 300, 400}, al \in {"time", "pitch"}})}

InitArgs ==
    /\ jobs = <<>>
    /\ progressCh = <<>>
    /\ created = 0
    /\ now = 1
    /\ worker = [i \in JobIDs |-> IdleWorker]
    /\ poll = IdlePoll
    /\ lastOp = NoOp
    /\ calls = 0
    /\ late = {}
    /\ mu = <<>>
    /\ diag = NoDiag
    /\ staging = NoStaging
    /\ \E kind \in {FileTypeImage, FileTypeVideo, FileTypeAudio} :
         \E payload \in (CASE kind = FileTypeImage -> ImagePayloads
                           [] kind = FileTypeVideo -> VideoPayloads
                           [] OTHER -> AudioPayloads) :
            built = [pc |-> "options", kind |-> kind, payload |-> payload,
                     filters |-> <<>>, args |-> <<>>]

\* convertImage up to the ImageMagick command.
BuildImageArgs ==
    /\ built.pc = "options"
    /\ built.kind = FileTypeImage
    /\ LET options == ImageConversionOptions(built.payload)
       IN built' = IF validateImageOptions(options) # NilErr
                   THEN [built EXCEPT !.pc = "rejected"]
                   ELSE [built EXCEPT
                           !.pc = "built",
                           !.args = convertImageArgs(options, InputPath, OutputPath)]
    /\ UNCHANGED <<jobs, progressCh, created, now, worker, poll, lastOp, calls, late, mu, diag, staging>>

\* convertVideo up to the ffmpeg command.
BuildVideoArgs ==
    /\ built.pc = "options"
    /\ built.kind = FileTypeVideo
    /\ LET options == VideoConversionOptions(built.payload)
       IN built' = IF validateVideoOptions(options) # NilErr
                   THEN [built EXCEPT !.pc = "rejected"]
                   ELSE [built EXCEPT
                           !.pc = "built",
                           !.filters = videoFilters(options),
                           !.args = convertVideoArgs(options, InputPath, OutputPath)]
    /\ UNCHANGED <<jobs, progressCh, created, now, worker, poll, lastOp, calls, late, mu, diag, staging>>

\* convertAudio up to the ffmpeg command.
BuildAudioArgs ==
    /\ built.pc = "options"
    /\ built.kind = FileTypeAudio
    /\ LET options == AudioConversionOptions(built.payload)
       IN built' = IF validateAudioOptions(options) # NilErr
                   THEN [built EXCEPT !.pc = "rejected"]
                   ELSE [built EXCEPT
                           !.pc = "built",
                           !.filters = audioFilters(options),
                           !.args = convertAudioArgs(options, InputPath, OutputPath)]
    /\ UNCHANGED <<jobs, progressCh, created, now, worker, poll, lastOp, calls, late, mu, diag, staging>>

NextArgs ==
    \/ BuildImageArgs
    \/ BuildVideoArgs
    \/ BuildAudioArgs

SpecArgs == InitArgs /\ [][NextArgs]_vars

----------------------------------------------------------------------------
(* The error classifier applied to one encoder failure.                    *)

DiagExits == {<<>>, <<1>>, <<2>>, <<8>>}

\* The errors runFFmpegWithProgress returns: a failure to start, or the
\* exit status followed by the collected stderr text when there is any.
DiagErrors ==
    {[text |-> (IF x = <<>> THEN "failed to start FFmpeg"
                ELSE "exit status " \o ToString(x[1]))
                 \o (IF c = {} \/ x = <<>> THEN ""
                     ELSE ". FFmpeg stderr: " \o (CHOOSE p \in c : TRUE)),
      exit |-> x,
      contains |-> IF x = <<>> THEN {} ELSE c] :
        x \in DiagExits,
        c \in {{}} \cup {{RecognisedPatterns[i]} : i \in DOMAIN RecognisedPatterns}}

DiagArgs ==
    {<<"-i", InputPath, "-crf", "23", "-y", OutputPath>>,
     <<"-i", InputPath, "-vf", "scale=640:-1", "-y", OutputPath>>,
     <<"-i", InputPath, "-vf", "gblur=sigma=0", "-y", OutputPath>>}

DiagEnvs == [inputAccessible : BOOLEAN, outputWritable : BOOLEAN, sameExt : BOOLEAN]

InitClassify ==
    /\ jobs = <<>>
    /\ progressCh = <<>>
    /\ created = 0
    /\ now = 1
    /\ worker = [i \in JobIDs |-> IdleWorker]
    /\ poll = IdlePoll
    /\ lastOp = NoOp
    /\ calls = 0
    /\ late = {}
    /\ mu = <<>>
    /\ built = NoBuild
    /\ staging = NoStaging
    /\ \E raw \in DiagErrors, args \in DiagArgs, env \in DiagEnvs :
          diag = [pc |-> "raised", raw |-> raw, args |-> args, env |-> env,
                  err |-> <<>>]

\* enhanceFFmpegError is called with the failure.
Classify ==
    /\ diag.pc = "raised"
    /\ diag' = [diag EXCEPT
                  !.pc = "classified",
                  !.err = enhanceFFmpegError(diag.raw, InputPath, OutputPath,
                                             diag.args, diag.env)]
    /\ UNCHANGED <<jobs, progressCh, created, now, worker, poll, lastOp, calls, late, mu, built, staging>>

NextClassify == Classify

SpecClassify == InitClassify /\ [][NextClassify]_vars

----------------------------------------------------------------------------
(* The save phase of the imaging-library revision of convertImage: the     *)
(* picture is encoded to the destination, or, for WebP, to a PNG staging   *)
(* file that ffmpeg then converts.                                         *)

\* The destination for a format, and the staging file next to it:
\* strings.TrimSuffix(outputPath, filepath.Ext(outputPath)) + ".png"
ImageOutputPath(format) == OutputPath \o "." \o format
TempPath == OutputPath \o ".png"

InitStaging ==
    /\ jobs = <<>>
    /\ progressCh = <<>>
    /\ created = 0
    /\ now = 1
    /\ worker = [i \in JobIDs |-> IdleWorker]
    /\ poll = IdlePoll
    /\ lastOp = NoOp
    /\ calls = 0
    /\ late = {}
    /\ mu = <<>>
    /\ built = NoBuild
    /\ diag = NoDiag
    /\ \E payload \in ImagePayloads :
          staging = [pc |-> "save", options |-> ImageConversionOptions(payload),
                     files |-> {}, deferred |-> FALSE, err |-> NilErr]

\* case "webp": savePNG(img, tempPath).  os.Create fails, or png.Encode
\* fails on the created file, or the staging file is written; only then
\* is its removal deferred.
SavePNGToTemp(fileCreated, encoded) ==
    /\ staging.pc = "save"
    /\ staging.options.Format = "webp"
    /\ staging' =
          IF ~fileCreated
          THEN [staging EXCEPT !.pc = "returned", !.err = "open: permission denied"]
          ELSE IF ~encoded
          THEN [staging EXCEPT !.pc = "returned", !.err = "write: no space left on device",
                               !.files = @ \cup {TempPath}]
          ELSE [staging EXCEPT !.pc = "webp", !.files = @ \cup {TempPath},
                               !.deferred = TRUE]
    /\ UNCHANGED <<jobs, progressCh, created, now, worker, poll, lastOp, calls, late, mu, built, diag>>

\* convertToWebP: ffmpeg reads the staging file and writes the destination.
ConvertToWebP(ok) ==
    /\ staging.pc = "webp"
    /\ staging' =
          IF ok
          THEN [staging EXCEPT !.pc = "saved",
                               !.files = @ \cup {ImageOutputPath("webp")}]
          ELSE [staging EXCEPT !.pc = "saved", !.err = "exit status 1"]
    /\ UNCHANGED <<jobs, progressCh, created, now, worker, poll, lastOp, calls, late, mu, built, diag>>

\* saveJPEG, savePNG or saveGIF straight to the destination; any other
\* format is refused.
SaveDirect(fileCreated, encoded) ==
    /\ staging.pc = "save"
    /\ staging.options.Format # "webp"
    /\ staging' =
          IF staging.options.Format \notin {"jpg", "jpeg", "png", "gif"}
          THEN [staging EXCEPT !.pc = "returned", !.err = "unsupported image format"]
          ELSE IF ~fileCreated
          THEN [staging EXCEPT !.pc = "saved", !.err = "open: permission denied"]
          ELSE [staging EXCEPT
                  !.pc = "saved",
                  !.err = IF encoded THEN NilErr ELSE "write: no space left on device",
                  !.files = @ \cup {ImageOutputPath(staging.options.Format)}]
    /\ UNCHANGED <<jobs, progressCh, created, now, worker, poll, lastOp, calls, late, mu, built, diag>>

\* convertImage returns saveErr or nil; the deferred os.Remove(tempPath)
\* runs if it was registered.
ConvertImageReturns ==
    /\ staging.pc = "saved"
    /\ staging' = [staging EXCEPT
                     !.pc = "returned",
                     !.files = IF staging.deferred THEN @ \ {TempPath} ELSE @]
    /\ UNCHANGED <<jobs, progressCh, created, now, worker, poll, lastOp, calls, late, mu, built, diag>>

NextStaging ==
    \/ \E fileCreated \in BOOLEAN, encoded \in BOOLEAN :
          SavePNGToTemp(fileCreated, encoded)
    \/ \E ok \in BOOLEAN : ConvertToWebP(ok)
    \/ \E fileCreated \in BOOLEAN, encoded \in BOOLEAN :
          SaveDirect(fileCreated, encoded)
    \/ ConvertImageReturns

SpecStaging == InitStaging /\ [][NextStaging]_vars

----------------------------------------------------------------------------
(* Properties *)

Rank(status) ==
    CASE status = StatusPending -> 0
      [] status = StatusProcessing -> 1
      [] OTHER -> 2

\* The step is a direct registry call of the given method on a stored job.
DirectCall(op) ==
    /\ calls' = calls + 1
    /\ lastOp'.op = op
    /\ lastOp'.id \in DOMAIN jobs

\* C1: once a job's status is Completed or Failed, no later registry call
\* changes that job's status.
C1_TerminalStatusIsFinal ==
    [][\A id \in DOMAIN jobs :
          (IsTerminal(jobs[id].Status) /\ id \in DOMAIN jobs')
             => jobs'[id].Status = jobs[id].Status]_vars

\* C2: in the orchestrated flow a job's status never moves backwards in the
\* order Pending, Processing, terminal, and never changes once terminal.
C2_StatusMonotonic ==
    [][\A id \in DOMAIN jobs :
          /\ Rank(jobs'[id].Status) >= Rank(jobs[id].Status)
          /\ IsTerminal(jobs[id].Status) => jobs'[id].Status = jobs[id].Status]_vars

\* Two jobs interleaved: one has completed, the other has failed after it
\* was processing, and a sample is still queued for the relay.
C2_Witness ==
    /\ DOMAIN jobs = {1, 2}
    /\ \E a, b \in DOMAIN jobs :
          /\ jobs[a].Status = StatusCompleted
          /\ jobs[b].Status = StatusFailed
          /\ worker[b].cause = "exit"
    /\ progressCh # <<>>

\* C3: while a job is not terminal its stored Progress never decreases from
\* one registry state to the next.
C3_ProgressNeverDecreases ==
    [][\A id \in DOMAIN jobs :
          ~IsTerminal(jobs[id].Status) => jobs'[id].Progress >= jobs[id].Progress]_vars

\* C4: a job whose status is Completed has Progress exactly 100.
C4_CompletedHasFullProgress ==
    \A id \in DOMAIN jobs : jobs[id].Status = StatusCompleted => jobs[id].Progress = 100

\* A completed job for which the relay has consumed a sample, below 100,
\* that was still queued when the job completed.
C4_Witness ==
    \E id \in DOMAIN jobs :
       /\ jobs[id].Status = StatusCompleted
       /\ id \in late
       /\ jobs[id].OriginalFile.Type = FileTypeVideo
       /\ progressCh = <<>>
   
\* C5: UpdateJobProgress called on a job that is Completed or Failed returns
\* no error and leaves every field of every job unchanged.
C5_ProgressCallOnTerminalIsNoOp ==
    [][(DirectCall("UpdateJobProgress") /\ IsTerminal(jobs[lastOp'.id].Status))
          => (jobs' = jobs /\ lastOp'.err = NilErr)]_vars

\* UpdateJobProgress has just returned nil for a terminal job whose stored
\* Progress differs from the progress both inputs carry.
C5_Witness ==
    /\ lastOp.op = "UpdateJobProgress"
    /\ lastOp.err = NilErr
    /\ lastOp.id \in DOMAIN jobs
    /\ jobs[lastOp.id].Status = StatusFailed
    /\ jobs[lastOp.id].Progress \notin ProgressInputs

\* C6: a poll response shows a terminal status exactly when it shows a
\* completion time.
C6_ResponseIsConsistent ==
    (poll.pc = "idle" /\ poll.resp.code = 200)
       => (IsTerminal(poll.resp.Status) <=> poll.resp.CompletedAt # NilTime)

\* C7: repeating a transition to the terminal status a job already has
\* (UpdateJobStatus with that status, or UpdateJobError with the message
\* the Failed job already carries) returns no error and leaves the job
\* record, completion time included, unchanged.
C7_RepeatedTerminalTransitionIsNoOp ==
    [][(\/ /\ DirectCall("UpdateJobStatus")
           /\ IsTerminal(lastOp'.arg)
           /\ jobs[lastOp'.id].Status = lastOp'.arg
        \/ /\ DirectCall("UpdateJobError")
           /\ jobs[lastOp'.id].Status = StatusFailed
           /\ jobs[lastOp'.id].Error = lastOp'.arg)
          => (jobs' = jobs /\ lastOp'.err = NilErr)]_vars

\* C8: a job's ResultURL is non-empty only if its status is Completed and
\* its Error is non-empty only if its status is Failed.
C8_OutcomeOnlyWhenTerminal ==
    \A id \in DOMAIN jobs :
       /\ jobs[id].ResultURL # "" => jobs[id].Status = StatusCompleted
       /\ jobs[id].Error # "" => jobs[id].Status = StatusFailed

\* C9: in the orchestrated flow no job has both a ResultURL and an Error.
C9_OutcomesExclusive ==
    \A id \in DOMAIN jobs : ~(jobs[id].ResultURL # "" /\ jobs[id].Error # "")

\* Both outcomes occur: one job ended with a result, another with an error.
C9_Witness ==
    \E a, b \in DOMAIN jobs :
       /\ jobs[a].ResultURL # "" /\ jobs[a].Error = ""
       /\ jobs[b].Error # "" /\ jobs[b].ResultURL = ""
       /\ worker[a].pc = "done" /\ worker[b].pc = "done"

FailureCauses == {"save", "input", "options", "start", "exit"}

\* C10: a job whose conversion failed on saving the upload, input
\* validation, option validation, starting the encoder or a non-zero exit
\* is Failed with a non-empty Error from then on, and so never Completed.
C10_FailureEndsFailed ==
    \A id \in DOMAIN jobs :
       worker[id].cause \in FailureCauses
          => (jobs[id].Status = StatusFailed /\ jobs[id].Error # "")

\* Two finished jobs that failed for different reasons, one of them on a
\* non-zero exit of the encoder and the other before any encoder ran.
C10_Witness ==
    \E a, b \in DOMAIN jobs :
       /\ worker[a].cause = "exit" /\ worker[a].pc = "done"
       /\ worker[b].cause \in {"save", "input", "options", "start"}
       /\ worker[b].pc = "done"
       /\ progressCh = <<>>

\* C11: a job is Completed only if its encoder process exited with code 0
\* and its ResultURL is set; a job whose conversion returned an error is
\* never Completed.
C11_CompletedOnlyAfterCleanExit ==
    \A id \in DOMAIN jobs :
       /\ jobs[id].Status = StatusCompleted
             => (worker[id].exit = <<0>> /\ jobs[id].ResultURL # "")
       /\ worker[id].cause # "none" => jobs[id].Status # StatusCompleted

\* One job completed after its encoder exited with 0 while another job's
\* encoder exited with 1 and that job is finished.
C11_Witness ==
    \E a, b \in DOMAIN jobs :
       /\ jobs[a].Status = StatusCompleted /\ worker[a].exit = <<0>>
       /\ worker[b].exit = <<1>> /\ worker[b].pc = "done"

\* C12: for a job whose options fail validation no encoder process is ever
\* started; once its conversion has run, the job is Failed with the
\* validation error.
C12_InvalidOptionsSpawnNothing ==
    \A id \in DOMAIN jobs :
       LET e == validateOptions(jobs[id].OriginalFile.Type, jobs[id].Options)
       IN /\ e # NilErr => (~worker[id].spawned /\ worker[id].exit = <<>>)
          /\ worker[id].cause = "options"
                => (e # NilErr /\ jobs[id].Status = StatusFailed /\ jobs[id].Error = e)
          /\ (e # NilErr /\ worker[id].pc = "done" /\ worker[id].cause \notin {"save", "input"})
                => worker[id].cause = "options"

\* A video job whose trim range ends before it starts has failed on option
\* validation while another job's encoder is running.
C12_Witness ==
    \E a, b \in DOMAIN jobs :
       /\ worker[a].cause = "options"
       /\ jobs[a].OriginalFile.Type = FileTypeVideo
       /\ jobs[a].Error = "invalid conversion options: trim end time must be greater than start time"
       /\ worker[b].pc = "running"

\* C13: the mailbox never holds more than 100 pending samples, a call of
\* SendProgressUpdate can always be taken, and a call made while the mailbox
\* holds 100 samples leaves the mailbox unchanged; otherwise the sample is
\* appended.
C13_FullMailboxDropsSample ==
    /\ [](Len(progressCh) <= ProgressChCap)
    /\ [](calls < MaxSends => \A p \in MailboxInputs : ENABLED MailboxSend(1, p))
    /\ [][(calls' = calls + 1 /\ lastOp'.op = "SendProgressUpdate")
            => IF Len(progressCh) = ProgressChCap
               THEN progressCh' = progressCh
               ELSE \E p \in MailboxInputs :
                       progressCh' = Append(progressCh,
                                            [JobID |-> lastOp'.id, Progress |-> p])]_vars

\* A call has just skipped its sample because the mailbox held 100.
C13_Witness ==
    /\ lastOp.op = "SendProgressUpdate"
    /\ lastOp.arg = "skipped"
    /\ Len(progressCh) = ProgressChCap

\* C14: every step either leaves the mailbox alone and applies no sample,
\* or accepts one sample at the tail of the mailbox and applies none, or
\* removes the oldest sample and applies exactly that sample to the
\* registry.  So samples are applied one at a time in the order of their
\* acceptance, and those of one job in the order that job sent them.
C14_RelayAppliesInOrder ==
    [][\/ /\ progressCh' = progressCh
          /\ \A id \in DOMAIN jobs :
                \/ jobs'[id].Progress = jobs[id].Progress
                \/ jobs'[id].Status = StatusCompleted /\ jobs[id].Status # StatusCompleted
       \/ /\ Len(progressCh') = Len(progressCh) + 1
          /\ SubSeq(progressCh', 1, Len(progressCh)) = progressCh
          /\ jobs' = jobs
       \/ /\ progressCh # <<>>
          /\ progressCh' = Tail(progressCh)
          /\ jobs' = UpdateJobProgress(jobs, Head(progressCh).JobID,
                                       Head(progressCh).Progress).jobs]_vars

\* The samples of two running jobs are interleaved in the mailbox and the
\* relay has applied the first ones of each.
C14_Witness ==
    /\ Len(progressCh) >= 3
    /\ progressCh[1].JobID = 2 /\ progressCh[2].JobID = 1 /\ progressCh[3].JobID = 2
    /\ DOMAIN jobs = {1, 2}
    /\ jobs[1].Progress = 20 /\ jobs[2].Progress = 10

\* C15: while a job's worker waits for its encoder to exit it does not hold
\* the registry mutex: a status poll, the relay and the pending registry
\* call of every other job's worker can take their step.
C15_WaitingWorkerHoldsNoLock ==
    \A a \in DOMAIN jobs :
       worker[a].pc = "running"
          => /\ mu # <<a>>
             /\ ENABLED GetJobStatus(a)
             /\ progressCh # <<>> => ENABLED handleProgressUpdates
             /\ \A b \in DOMAIN jobs \ {a} :
                   /\ worker[b].pc = "savefailed" => ENABLED SaveFailed(b)
                   /\ worker[b].pc = "start" => ENABLED StartProcessing(b)
                   /\ worker[b].pc = "convert" => ENABLED ConvertFileBegin(b, FALSE)
                   /\ worker[b].pc = "running" => ENABLED EncoderExit(b, 1)
                   /\ worker[b].pc = "complete" => ENABLED MarkCompleted(b)

\* One worker is still waiting for its encoder, with samples queued, while
\* the other job went through its whole conversion and is Completed.
C15_Witness ==
    \E a, b \in DOMAIN jobs :
       /\ worker[a].pc = "running"
       /\ progressCh # <<>>
       /\ jobs[b].Status = StatusCompleted
       /\ jobs[a].Status = StatusProcessing

\* C16: a call of UpdateJobProgress on a job whose status is not Processing
\* leaves that job's Progress unchanged.
C16_ProgressOnlyWhileProcessing ==
    [][(DirectCall("UpdateJobProgress") /\ jobs[lastOp'.id].Status # StatusProcessing)
          => jobs'[lastOp'.id].Progress = jobs[lastOp'.id].Progress]_vars

ByIdMethods ==
    {"GetJob", "UpdateJobStatus", "UpdateJobProgress", "UpdateJobResult", "UpdateJobError"}

\* C17: GetJob, UpdateJobStatus, UpdateJobProgress, UpdateJobResult and
\* UpdateJobError called with an identifier that is not in the registry
\* return the not-found error and leave the registry unchanged.
C17_UnknownIdIsNotFound ==
    [][(/\ calls' = calls + 1
        /\ lastOp'.op \in ByIdMethods
        /\ lastOp'.id \notin DOMAIN jobs)
          => (lastOp'.err = ErrJobNotFound /\ jobs' = jobs)]_vars

\* UpdateJobResult has just returned not-found for an identifier the
\* registry does not hold, while it holds another job.
C17_Witness ==
    /\ lastOp.op = "UpdateJobResult"
    /\ lastOp.err = ErrJobNotFound
    /\ lastOp.id \notin DOMAIN jobs
    /\ jobs # <<>>

\* The options of the grayscale scenario, as the client submits them.
GrayscaleScenario == [format |-> "png", width |-> 800, filter |-> "grayscale"]

\* The first place of a sequence at which two tokens follow each other, or
\* 0 when they never do.
TokenAt(args, flag, value) ==
    LET at == {i \in 1..(Len(args) - 1) : args[i] = flag /\ args[i + 1] = value}
    IN IF at = {} THEN 0 ELSE CHOOSE i \in at : \A j \in at : i <= j

\* C18: an image job submitted with exactly the options of the grayscale
\* scenario, whose conversion is over and met no failure of the file
\* system or of the encoder, has built arguments in which the resize to
\* width 800 with automatic height precedes the grayscale token, had its
\* encoder run, and is Completed with Progress 100.
C18_GrayscaleScenarioCompletes ==
    \A id \in DOMAIN jobs :
       (/\ jobs[id].OriginalFile.Type = FileTypeImage
        /\ jobs[id].Options = GrayscaleScenario
        /\ worker[id].pc = "done"
        /\ worker[id].cause \notin {"save", "input", "mkdir", "start", "exit"})
          => LET args == convertImageArgs(ImageConversionOptions(jobs[id].Options),
                                          "input", "output")
             IN /\ TokenAt(args, "-resize", "800x") > 0
                /\ TokenAt(args, "-resize", "800x") < TokenAt(args, "-colorspace", "Gray")
                /\ worker[id].exit = <<0>>
                /\ jobs[id].Status = StatusCompleted
                /\ jobs[id].Progress = 100

RECURSIVE Product(_)
Product(factors) ==
    IF factors = <<>> THEN 1 ELSE Head(factors) * Product(Tail(factors))

RECURSIVE Power(_, _)
Power(base, n) == IF n = 0 THEN 1 ELSE base * Power(base, n - 1)

\* The factors, in hundredths, multiply to the speed, in hundredths.
MultipliesTo(factors, speed) ==
    Product(factors) = speed * Power(100, Len(factors) - 1)

\* C19: for a validated audio speed other than 1.0 the atempo chain is not
\* empty, each of its stages lies within [0.5, 2.0], and the stages
\* multiply to the speed; speed 3.0 gives the stages 2.0 and 1.5.
C19_AudioTempoChain ==
    (built.pc = "built" /\ built.kind = FileTypeAudio /\ built.payload.speed # 100)
       => /\ built.filters # <<>>
          /\ \A i \in DOMAIN built.filters :
                built.filters[i] >= 50 /\ built.filters[i] <= 200
          /\ MultipliesTo(built.filters, built.payload.speed)
          /\ built.payload.speed = 300 => built.filters = <<200, 150>>

\* C20: for a validated video speed outside [0.5, 2.0] the atempo chain of
\* the accompanying audio has more than one stage, each within [0.5, 2.0],
\* and is the chain convertAudio builds for that speed.
C20_VideoTempoChain ==
    (/\ built.pc = "built" /\ built.kind = FileTypeVideo
     /\ (built.payload.speed < 50 \/ built.payload.speed > 200))
       => /\ Len(built.filters) > 1
          /\ \A i \in DOMAIN built.filters :
                built.filters[i] >= 50 /\ built.filters[i] <= 200
          /\ built.filters = audioTempoFilters(built.payload.speed)

RECURSIVE Count(_, _)
\* How many times a token occurs in an argument list.
Count(args, token) ==
    IF args = <<>> THEN 0
    ELSE (IF Head(args) = token THEN 1 ELSE 0) + Count(Tail(args), token)

\* The positions of a token in an argument list.
Positions(args, token) == {i \in DOMAIN args : args[i] = token}

\* C21: a validated video or audio build has at most one -vf and at most
\* one -af flag (and no other filter flag); the -vf flag is there exactly
\* when the conversion has video filters and is followed by all of them,
\* the speed term included, joined by commas, and likewise -af for the
\* audio filters.
C21_OneFilterFlagPerStream ==
    (built.pc = "built" /\ built.kind \in {FileTypeVideo, FileTypeAudio})
       => LET video == built.kind = FileTypeVideo
              options == IF video THEN VideoConversionOptions(built.payload)
                         ELSE AudioConversionOptions(built.payload)
              vf == IF video THEN videoFilters(options) ELSE <<>>
              af == IF video THEN videoAudioFilters(options) ELSE audioFilters(options)
              Carries(flag, fs) ==
                  /\ Count(built.args, flag) = (IF fs = <<>> THEN 0 ELSE 1)
                  /\ \A i \in Positions(built.args, flag) :
                        i < Len(built.args) /\ built.args[i + 1] = Join(fs, ",")
          IN /\ Carries("-vf", vf)
             /\ Carries("-af", af)
             /\ Count(built.args, "-filter:v") = 0
             /\ Count(built.args, "-filter:a") = 0
             /\ options.Speed # 100 => vf # <<>> \/ ~video
             /\ options.Speed # 100 => af # <<>>

\* An audio build whose single chain joins the volume, the normalisation
\* and the two speed stages.
C21_Witness ==
    /\ built.pc = "built"
    /\ built.kind = FileTypeAudio
    /\ TokenAt(built.args, "-af", "volume=1.50,loudnorm,atempo=2.0,atempo=1.50") # 0

\* C22: in a validated image build with a crop region and a resize
\* dimension, the crop flag and its geometry come before the resize flag.
C22_CropBeforeResize ==
    (/\ built.pc = "built" /\ built.kind = FileTypeImage
     /\ Has(built.payload, "crop")
     /\ (Has(built.payload, "width") \/ Has(built.payload, "height")))
       => /\ Count(built.args, "-crop") = 1
          /\ Count(built.args, "-resize") = 1
          /\ \A i \in Positions(built.args, "-crop"),
                j \in Positions(built.args, "-resize") : i + 1 < j

\* An image build that crops to 100x50 at (10, 20) and resizes to 800x600.
C22_Witness ==
    /\ built.pc = "built"
    /\ built.kind = FileTypeImage
    /\ TokenAt(built.args, "-crop", "100x50+10+20") # 0
    /\ TokenAt(built.args, "-resize", "800x600!") # 0

\* The flags that introduce a filter, a quality or a codec.
FilterQualityCodecFlags ==
    {"-vf", "-af", "-crf", "-c:v", "-c:a", "-b:a", "-quality", "-colorspace",
     "-modulate", "-colorize", "-fill", "-tint", "-crop", "-resize"}

\* C23: every validated build ends with the overwrite flag followed by the
\* destination path, and every filter, quality and codec flag with its
\* value comes before that pair.
C23_OverwriteAndDestinationLast ==
    built.pc = "built"
       => LET n == Len(built.args)
          IN /\ n >= 2
             /\ built.args[n - 1] = "-y"
             /\ built.args[n] = OutputPath
             /\ \A flag \in FilterQualityCodecFlags :
                   \A i \in Positions(built.args, flag) : i + 1 < n - 1

\* The formats convertAudio writes without a bitrate.
LosslessFormats == {"wav", "flac", "alac"}

\* C24: an audio option set with a lossless format and no bitrate, whose
\* other fields are valid (it passes validation once a bitrate is put in),
\* is accepted by validateAudioOptions and the conversion goes on to build.
C24_LosslessNeedsNoBitrate ==
    (/\ built.pc # "options" /\ built.kind = FileTypeAudio
     /\ built.payload.format \in LosslessFormats
     /\ ~Has(built.payload, "bitrate")
     /\ validateAudioOptions(
            AudioConversionOptions(built.payload @@ [bitrate |-> "192"])) = NilErr)
       => /\ validateAudioOptions(AudioConversionOptions(built.payload)) = NilErr
          /\ built.pc = "built"

\* C29: for a validated audio option set with an enabled time stretch of
\* the "time" algorithm, every tempo stage emitted for the stretch lies
\* within [0.5, 2.0] and the stages multiply to the factor.
C29_TimeStretchChain ==
    (built.pc = "built" /\ built.kind = FileTypeAudio)
       => LET ts == Sub(AudioConversionOptions(built.payload).Advanced, "timeStretch")
          IN (ts # <<>> /\ BoolField(ts[1], "enabled")
                /\ StrField(ts[1], "algorithm") = "time")
               => LET stages == timeStretchFilters(NumField(ts[1], "factor"))
                  IN /\ \A i \in DOMAIN stages : stages[i] >= 50 /\ stages[i] <= 200
                     /\ MultipliesTo(stages, NumField(ts[1], "factor"))
                     /\ \A i \in DOMAIN timeStretchTokens(ts[1]) :
                           \E k \in DOMAIN built.filters :
                              built.filters[k] = timeStretchTokens(ts[1])[i]

\* C30: a validated video build selects the video codec exactly once and
\* the audio codec at most once, whatever the format.
C30_OneCodecSelection ==
    (built.pc = "built" /\ built.kind = FileTypeVideo)
       => /\ Count(built.args, "-c:v") = 1
          /\ Count(built.args, "-c:a") <= 1

\* The arguments the conversion of a job builds.
JobArgs(job) ==
    CASE job.OriginalFile.Type = FileTypeImage ->
            convertImageArgs(ImageConversionOptions(job.Options), InputPath, OutputPath)
      [] job.OriginalFile.Type = FileTypeVideo ->
            convertVideoArgs(VideoConversionOptions(job.Options), InputPath, OutputPath)
      [] OTHER ->
            convertAudioArgs(AudioConversionOptions(job.Options), InputPath, OutputPath)

\* The errors cmd.Wait() can have produced for an exit code.
ExitErrors(code) ==
    {[text |-> "exit status " \o ToString(code) \o tail, exit |-> <<code>>,
      contains |-> {}] :
        tail \in {"", ". FFmpeg stderr: ...", ". ImageMagick stderr: ..."}}

\* C25: the Error of a job that failed because its encoder exited with a
\* non-zero code is the text the classifier makes of the exit error, the
\* job's arguments and its paths.
C25_ExitErrorsAreClassified ==
    \A id \in DOMAIN jobs :
       (worker[id].cause = "exit" /\ jobs[id].Status = StatusFailed)
          => \E raw \in ExitErrors(worker[id].exit[1]), env \in DiagEnvs :
                jobs[id].Error =
                   ErrorText(enhanceFFmpegError(raw, InputPath, OutputPath,
                                                JobArgs(jobs[id]), env))

\* The elements of a sequence.
Range(seq) == {seq[i] : i \in DOMAIN seq}

\* C26: when the classifier is given an exit with code 8 whose text has
\* none of the recognised substrings, and the output directory is not
\* writable, the classified error lists the suggestion "Output directory
\* is not writable" and quotes the whole command.
C26_Exit8NamesUnwritableOutput ==
    (/\ diag.pc = "classified"
     /\ diag.raw.exit = <<8>>
     /\ diag.raw.contains = {}
     /\ ~diag.env.outputWritable)
       => /\ "Output directory is not writable" \in Range(diag.err.suggestions)
          /\ diag.err.command = diag.args
          /\ ErrorText(diag.err) =
                "FFmpeg parameter/data error (exit code 8): " \o diag.raw.text
                   \o ". Possible issues: " \o Join(diag.err.suggestions, "; ")
                   \o ". Command: ffmpeg " \o Join(diag.args, " ")

\* An exit with code 8 and a plain text, classified with the input
\* readable, the output directory not writable and nothing else to report.
C26_Witness ==
    /\ diag.pc = "classified"
    /\ diag.raw = [text |-> "exit status 8", exit |-> <<8>>, contains |-> {}]
    /\ diag.env = [inputAccessible |-> TRUE, outputWritable |-> FALSE, sameExt |-> FALSE]
    /\ diag.err.suggestions = <<"Output directory is not writable">>

\* C27: when a WebP conversion returns, with or without an error, its
\* PNG staging file does not exist.
C27_StagingFileRemoved ==
    (staging.pc = "returned" /\ staging.options.Format = "webp")
       => TempPath \notin staging.files

\* C28: under fair scheduling, with every started encoder exiting, every
\* job UploadFile has created is eventually Completed or Failed.
C28_EveryJobTerminates ==
    \A id \in JobIDs :
       (id \in DOMAIN jobs)
          ~> (id \in DOMAIN jobs /\ jobs[id].Status \in {StatusCompleted, StatusFailed})

\* The job's goroutine is over after its encoder exited with a failure, and
\* the job is Failed.
C28_Witness ==
    /\ 1 \in DOMAIN jobs
    /\ worker[1].pc = "done"
    /\ worker[1].exit # <<>> /\ worker[1].exit # <<0>>
    /\ jobs[1].Status = StatusFailed

====
